---- MODULE Spec2Model ----
(***************************************************************************)
(* The session layer of tenable.io.TenableIO (src/tenable/io/__init__.py): *)
(* construction and the X-APIKeys header, the retry loop with its          *)
(* correlation headers, and the cached timezone listing.                   *)
(*                                                                         *)
(* Python dicts are functions with a finite set of strings as domain: a    *)
(* missing key is a string outside the DOMAIN.  An optional value (None or *)
(* a value) is a record with the field "given".                            *)
(*                                                                         *)
(* TenableIO extends tenable.base.APISession, whose file is not among the  *)
(* sources; the operators that stand for it are named APISession_* and are *)
(* written from the documentation of the class (the docstring of           *)
(* TenableIO) and from the description of the session transport.           *)
(***************************************************************************)
EXTENDS Integers, Sequences, FiniteSets, TLC

(***************************************************************************)
(* Bounds of the model.                                                    *)
(***************************************************************************)
\* The largest `retries` a caller passes to the constructor.
MaxRetriesArg == 2
\* The largest retry count handed to _retry_request on its own.
MaxCount == 11
\* The number of _retry_request calls chained on one kwargs.
MaxChain == 2
\* The number of accesses to the _tz property.
MaxTzAccess == 3

(***************************************************************************)
(* Program constants.                                                      *)
(***************************************************************************)
\* "The default is ``3``."
DefaultRetries == 3
\* "The default backoff is ``1`` second."
DefaultBackoff == 1

(***************************************************************************)
(* Dicts and optional values.                                              *)
(***************************************************************************)
EmptyDict == [k \in {} |-> ""]
Has(d, k) == k \in DOMAIN d
Put(d, k, v) == (k :> v) @@ d
\* dict.update(other): the keys of `other` win.
Update(d, other) == other @@ d

None == [given |-> FALSE]
Some(v) == [given |-> TRUE, v |-> v]

(***************************************************************************)
(* str(n) for a non-negative int: its decimal digits.                      *)
(***************************************************************************)
Digit(d) ==
    CASE d = 0 -> "0" [] d = 1 -> "1" [] d = 2 -> "2" [] d = 3 -> "3"
      [] d = 4 -> "4" [] d = 5 -> "5" [] d = 6 -> "6" [] d = 7 -> "7"
      [] d = 8 -> "8" [] d = 9 -> "9"

RECURSIVE str(_)
str(n) == IF n < 10 THEN Digit(n) ELSE str(n \div 10) \o Digit(n % 10)

(***************************************************************************)
(* The inputs of the model.                                                *)
(***************************************************************************)
AccessKeys == {"ak1", "ak2"}
SecretKeys == {"sk1", ""}
RetriesArgs == {None} \cup {Some(n) : n \in 1..MaxRetriesArg}
BackoffArgs == {None, Some(2), Some(5)}
Verbs == {"GET", "POST", "PUT", "DELETE"}

\* The keyword arguments a caller gives to get/post/put/delete.
CallerHeaders == {EmptyDict, [Accept |-> "json"]}
CallerKwargs ==
    {EmptyDict, [params |-> "p"]}
    \cup {[headers |-> h] : h \in CallerHeaders}
    \cup {[headers |-> h, params |-> "p"] : h \in CallerHeaders}

\* The responses of the server.
StatusCodes == {200, 404, 429, 503}
Uuids == {"u1", "u2"}
ResponseHeaders ==
    LET uuid == {EmptyDict} \cup {("X-Request-Uuid" :> u) : u \in Uuids}
        after == {EmptyDict, ("Retry-After" :> "3")}
    IN  {a @@ b : a \in uuid, b \in after}
Responses == [status : StatusCodes, headers : ResponseHeaders]
NoResponse == [status |-> 0, headers |-> EmptyDict]

\* The listings scans.timezones() may return.
TzListings == {<<>>, <<"UTC">>, <<"UTC", "US/Eastern">>}

VARIABLES
    pc,             \* "new": not constructed; "idle"; "waiting": a request is out
    arg_retries,    \* the `retries` given to the constructor
    arg_backoff,    \* the `backoff` given to the constructor
    _access_key,    \* self._access_key
    _secret_key,    \* self._secret_key
    _retries,       \* self._retries
    _backoff,       \* self._backoff
    _session,       \* self._session.headers, the default headers of the session
    method,         \* the verb of the call under way
    call_kwargs,    \* the keyword arguments of the call under way
    n_retries,      \* the retry counter of the call under way
    attempts,       \* how many times the request of the call was sent
    sent,           \* the request sent last
    last_resp,      \* the response received last
    slept,          \* the wait before the retry made last
    outcome,        \* how the last call ended: "none", "response", "raised"
    _tzcache,       \* self._tzcache
    tz_calls,       \* the scans.timezones() calls made
    tz_accesses,    \* the accesses to _tz made
    tz_first,       \* what the first access to _tz returned
    tz_last,        \* what the last access to _tz returned
    u_kwargs,       \* chained _retry_request calls: the kwargs returned last
    u_before,       \*   the kwargs passed to the last call
    u_response,     \*   the response passed to the last call
    u_retries,      \*   the retries passed to the last call
    u_calls         \*   the number of calls made

client_vars == <<pc, arg_retries, arg_backoff, _access_key, _secret_key,
                 _retries, _backoff, _session, method, call_kwargs, n_retries,
                 attempts, sent, last_resp, slept, outcome>>
tz_vars == <<_tzcache, tz_calls, tz_accesses, tz_first, tz_last>>
unit_vars == <<u_kwargs, u_before, u_response, u_retries, u_calls>>
vars == <<client_vars, tz_vars, unit_vars>>

(***************************************************************************)
(* TenableIO._retry_request(response, retries, kwargs): the kwargs of the  *)
(* next attempt.                                                           *)
(***************************************************************************)
\* A variant that tags only the first retry: a count already there is kept.
_retry_request_keeps_count(response, retries, kwargs) ==
    LET kw == IF ~Has(kwargs, "headers")
              THEN Put(kwargs, "headers", EmptyDict)
              ELSE kwargs
        h1 == IF Has(response.headers, "X-Request-Uuid")
              THEN Put(kw["headers"], "X-Tio-Last-Request-Uuid",
                       response.headers["X-Request-Uuid"])
              ELSE kw["headers"]
        h2 == IF Has(h1, "X-Tio-Retry-Count")
              THEN h1
              ELSE Put(h1, "X-Tio-Retry-Count", str(retries))
    IN  Put(kw, "headers", h2)

\* A variant that keeps the UUID of the first response of the chain.
_retry_request_first_uuid(response, retries, kwargs) ==
    LET kw == IF ~Has(kwargs, "headers")
              THEN Put(kwargs, "headers", EmptyDict)
              ELSE kwargs
        h1 == IF /\ Has(response.headers, "X-Request-Uuid")
                 /\ ~Has(kw["headers"], "X-Tio-Last-Request-Uuid")
              THEN Put(kw["headers"], "X-Tio-Last-Request-Uuid",
                       response.headers["X-Request-Uuid"])
              ELSE kw["headers"]
        h2 == Put(h1, "X-Tio-Retry-Count", str(retries))
    IN  Put(kw, "headers", h2)

\* A variant that starts from fresh headers whether or not kwargs had any.
_retry_request_fresh_headers(response, retries, kwargs) ==
    LET kw == Put(kwargs, "headers", EmptyDict)
        h1 == IF Has(response.headers, "X-Request-Uuid")
              THEN Put(kw["headers"], "X-Tio-Last-Request-Uuid",
                       response.headers["X-Request-Uuid"])
              ELSE kw["headers"]
        h2 == Put(h1, "X-Tio-Retry-Count", str(retries))
    IN  Put(kw, "headers", h2)

_retry_request(response, retries, kwargs) ==
    LET kw == IF ~Has(kwargs, "headers")
              THEN Put(kwargs, "headers", EmptyDict)
              ELSE kwargs
        h1 == IF Has(response.headers, "X-Request-Uuid")
              THEN Put(kw["headers"], "X-Tio-Last-Request-Uuid",
                       response.headers["X-Request-Uuid"])
              ELSE kw["headers"]
        h2 == Put(h1, "X-Tio-Retry-Count", str(retries))
    IN  Put(kw, "headers", h2)

(***************************************************************************)
(* Construction.  TenableIO.__init__ stores the keys and hands the other   *)
(* arguments to APISession.__init__, which keeps the retries and the       *)
(* backoff given (or their defaults) and builds the session.               *)
(***************************************************************************)
\* A variant that passes retries and backoff on in each other's place.
APISession_init_args_swapped(retries, backoff) ==
    [retries |-> backoff, backoff |-> retries]

\* A variant that does not pass the backoff on.
APISession_init_args_no_backoff(retries, backoff) ==
    [retries |-> retries, backoff |-> None]

\* The arguments TenableIO.__init__ passes on to APISession.__init__.
APISession_init_args(retries, backoff) ==
    [retries |-> retries, backoff |-> backoff]

APISession_retries(args) ==
    IF args.retries.given THEN args.retries.v ELSE DefaultRetries

APISession_backoff(args) ==
    IF args.backoff.given THEN args.backoff.v ELSE DefaultBackoff

\* APISession._build_session: a fresh session with the library's headers.
APISession_build_session == ("User-Agent" :> "pyTenable")

\* A variant that formats the two keys in each other's place.
_build_session_swapped(access_key, secret_key) ==
    Update(APISession_build_session,
           ("X-APIKeys" :> ("accessKey=" \o secret_key \o "; secretKey="
                            \o access_key \o ";")))

\* TenableIO._build_session: the base session plus the API keys.
_build_session(access_key, secret_key) ==
    Update(APISession_build_session,
           ("X-APIKeys" :> ("accessKey=" \o access_key \o "; secretKey="
                            \o secret_key \o ";")))

NoRequest == [method |-> "", kwargs |-> EmptyDict, session |-> EmptyDict]
Request(verb, kw, session) ==
    [method |-> verb, kwargs |-> kw, session |-> session]

__init__ ==
    \E access_key \in AccessKeys, secret_key \in SecretKeys,
       retries \in RetriesArgs, backoff \in BackoffArgs :
        LET args == APISession_init_args(retries, backoff) IN
        /\ pc = "new"
        /\ arg_retries' = retries
        /\ arg_backoff' = backoff
        /\ _access_key' = access_key
        /\ _secret_key' = secret_key
        /\ _retries' = APISession_retries(args)
        /\ _backoff' = APISession_backoff(args)
        /\ _session' = _build_session(access_key, secret_key)
        /\ pc' = "idle"
        /\ UNCHANGED <<method, call_kwargs, n_retries, attempts, sent,
                       last_resp, slept, outcome>>
        /\ UNCHANGED <<tz_vars, unit_vars>>

(***************************************************************************)
(* APISession._request, the loop behind get/post/put/delete: a 429 or 5xx  *)
(* response is retried, after a wait, until `_retries` retries were made;  *)
(* then the error is raised.  Any other error status is raised at once.    *)
(***************************************************************************)
IsRetryable(status) == status = 429 \/ (status >= 500 /\ status <= 599)
IsSuccess(status) == status >= 200 /\ status <= 299

RetryableResponses == {r \in Responses : IsRetryable(r.status)}

\* int(s) of a decimal string.
int(s) == CHOOSE n \in 0..99 : str(n) = s

\* The wait before a retry: the Retry-After of the response, else the backoff.
APISession_wait(response, backoff) ==
    IF Has(response.headers, "Retry-After")
    THEN int(response.headers["Retry-After"])
    ELSE backoff

\* get / post / put / delete: the first attempt of a call.
APISession_request ==
    \E verb \in Verbs, kw \in CallerKwargs :
        /\ pc = "idle"
        /\ method' = verb
        /\ call_kwargs' = kw
        /\ n_retries' = 0
        /\ attempts' = 1
        /\ sent' = Request(verb, kw, _session)
        /\ last_resp' = NoResponse
        /\ slept' = None
        /\ outcome' = "none"
        /\ pc' = "waiting"
        /\ UNCHANGED <<arg_retries, arg_backoff, _access_key, _secret_key,
                       _retries, _backoff, _session>>
        /\ UNCHANGED <<tz_vars, unit_vars>>

\* A retryable response while retries are left: wait, tag, send again.
APISession_request_retry ==
    \E response \in Responses :
        /\ pc = "waiting"
        /\ IsRetryable(response.status)
        /\ n_retries < _retries
        /\ last_resp' = response
        /\ n_retries' = n_retries + 1
        /\ slept' = Some(APISession_wait(response, _backoff))
        /\ call_kwargs' = _retry_request(response, n_retries + 1, call_kwargs)
        /\ sent' = Request(method, call_kwargs', _session)
        /\ attempts' = attempts + 1
        /\ UNCHANGED <<pc, arg_retries, arg_backoff, _access_key, _secret_key,
                       _retries, _backoff, _session, method, outcome>>
        /\ UNCHANGED <<tz_vars, unit_vars>>

\* A successful response is returned to the caller.
APISession_request_return ==
    \E response \in Responses :
        /\ pc = "waiting"
        /\ IsSuccess(response.status)
        /\ last_resp' = response
        /\ outcome' = "response"
        /\ pc' = "idle"
        /\ UNCHANGED <<arg_retries, arg_backoff, _access_key, _secret_key,
                       _retries, _backoff, _session, method, call_kwargs,
                       n_retries, attempts, sent, slept>>
        /\ UNCHANGED <<tz_vars, unit_vars>>

\* An error that is not retried, or no retries left: the error is raised.
APISession_request_raise ==
    \E response \in Responses :
        /\ pc = "waiting"
        /\ ~IsSuccess(response.status)
        /\ IsRetryable(response.status) => n_retries >= _retries
        /\ last_resp' = response
        /\ outcome' = "raised"
        /\ pc' = "idle"
        /\ UNCHANGED <<arg_retries, arg_backoff, _access_key, _secret_key,
                       _retries, _backoff, _session, method, call_kwargs,
                       n_retries, attempts, sent, slept>>
        /\ UNCHANGED <<tz_vars, unit_vars>>

(***************************************************************************)
(* TenableIO._tz: the timezone listing, fetched when the cache is empty.   *)
(***************************************************************************)
\* Python's `not x` for None and for a list.
Falsy(x) == ~x.given \/ x.v = <<>>

_tz ==
    \E listing \in TzListings :
        LET cache == IF Falsy(_tzcache) THEN Some(listing) ELSE _tzcache IN
        /\ pc = "idle"
        /\ tz_accesses < MaxTzAccess
        /\ _tzcache' = cache
        /\ tz_calls' = IF Falsy(_tzcache) THEN tz_calls + 1 ELSE tz_calls
        /\ tz_accesses' = tz_accesses + 1
        /\ tz_last' = cache
        /\ tz_first' = IF tz_accesses = 0 THEN cache ELSE tz_first
        /\ UNCHANGED <<client_vars, unit_vars>>

(***************************************************************************)
(* The client: an object is constructed, then calls are made through it.   *)
(***************************************************************************)
InitClient ==
    /\ pc = "new"
    /\ arg_retries = None
    /\ arg_backoff = None
    /\ _access_key = ""
    /\ _secret_key = ""
    /\ _retries = DefaultRetries
    /\ _backoff = DefaultBackoff
    /\ _session = EmptyDict
    /\ method = ""
    /\ call_kwargs = EmptyDict
    /\ n_retries = 0
    /\ attempts = 0
    /\ sent = NoRequest
    /\ last_resp = NoResponse
    /\ slept = None
    /\ outcome = "none"
    /\ _tzcache = None
    /\ tz_calls = 0
    /\ tz_accesses = 0
    /\ tz_first = None
    /\ tz_last = None

Init ==
    /\ InitClient
    /\ u_kwargs = EmptyDict
    /\ u_before = EmptyDict
    /\ u_response = NoResponse
    /\ u_retries = 0
    /\ u_calls = 0

Next ==
    \/ __init__
    \/ APISession_request
    \/ APISession_request_retry
    \/ APISession_request_return
    \/ APISession_request_raise

Spec == Init /\ [][Next]_vars

(***************************************************************************)
(* The timezone cache: an object is constructed, then _tz is read.         *)
(***************************************************************************)
NextTz ==
    \/ __init__
    \/ _tz

SpecTz == Init /\ [][NextTz]_vars

(***************************************************************************)
(* _retry_request on its own: the retries of one call, each call's result  *)
(* being the kwargs of the next, for every response and every count.  The  *)
(* method reads no field of the object, so the object's state stays as it  *)
(* is.                                                                     *)
(***************************************************************************)
InitRetry ==
    /\ InitClient
    /\ u_kwargs \in CallerKwargs
    /\ u_before = u_kwargs
    /\ u_response = NoResponse
    /\ u_retries = 0
    /\ u_calls = 0

retry_request_call ==
    \E response \in RetryableResponses, retries \in 0..MaxCount :
        /\ u_calls < MaxChain
        /\ u_before' = u_kwargs
        /\ u_response' = response
        /\ u_retries' = retries
        /\ u_kwargs' = _retry_request(response, retries, u_kwargs)
        /\ u_calls' = u_calls + 1
        /\ UNCHANGED <<client_vars, tz_vars>>

NextRetry == retry_request_call

SpecRetry == InitRetry /\ [][NextRetry]_vars

(***************************************************************************)
(* Properties.                                                             *)
(***************************************************************************)
\* What the constructor's arguments ask for.
ExpectedRetries == IF arg_retries.given THEN arg_retries.v ELSE 3
ExpectedBackoff == IF arg_backoff.given THEN arg_backoff.v ELSE 1

\* The decimal strings of 0, 1, 2, ..., written out.
DecimalStrings ==
    <<"0", "1", "2", "3", "4", "5", "6", "7", "8", "9", "10", "11", "12",
      "13", "14", "15", "16">>

HeadersOf(kw) == IF Has(kw, "headers") THEN kw["headers"] ELSE EmptyDict
XTio == {"X-Tio-Last-Request-Uuid", "X-Tio-Retry-Count"}

\* C1: a request is re-sent at most `retries` times (3 by default); a call
\* whose last response was retryable ended by raising, after exactly that
\* many re-sends; and a call that ended has a response or raised an error.
C1_RetriesBounded ==
    /\ attempts <= 1 + ExpectedRetries
    /\ (pc = "idle" /\ attempts > 0) =>
            /\ outcome \in {"response", "raised"}
            /\ outcome = "response" <=> IsSuccess(last_resp.status)
            /\ IsRetryable(last_resp.status) =>
                    /\ outcome = "raised"
                    /\ attempts = 1 + ExpectedRetries
    /\ pc = "waiting" => outcome = "none"

\* C1: a call with the default retries got four retryable responses and raised.
C1_Witness ==
    /\ pc = "idle"
    /\ ~arg_retries.given
    /\ outcome = "raised"
    /\ last_resp.status = 429
    /\ attempts = 4

\* C2: once the object is constructed, the session's default headers hold
\* X-APIKeys = 'accessKey=<access_key>; secretKey=<secret_key>;', every
\* request, first attempt or retry, is sent with these default headers, and
\* the headers of the request itself never hold an X-APIKeys of their own.
C2_ApiKeysHeader ==
    LET expected == "accessKey=" \o _access_key \o "; secretKey="
                    \o _secret_key \o ";" IN
    pc # "new" =>
        /\ Has(_session, "X-APIKeys")
        /\ _session["X-APIKeys"] = expected
        /\ attempts > 0 =>
            /\ Has(sent.session, "X-APIKeys")
            /\ sent.session["X-APIKeys"] = expected
            /\ ~Has(HeadersOf(sent.kwargs), "X-APIKeys")

\* C2: a second retry was sent by an object made with the keys ak2 and sk1.
C2_Witness ==
    /\ pc = "waiting"
    /\ attempts = 3
    /\ _access_key = "ak2"
    /\ _secret_key = "sk1"
    /\ sent.session["X-APIKeys"] = "accessKey=ak2; secretKey=sk1;"

\* C3: after _retry_request(response, retries, kwargs) the header
\* X-Tio-Retry-Count of the result is the decimal string of retries, with or
\* without a headers entry in kwargs and whatever the header held before.
C3_RetryCount ==
    u_calls > 0 =>
        /\ Has(u_kwargs, "headers")
        /\ Has(u_kwargs["headers"], "X-Tio-Retry-Count")
        /\ u_kwargs["headers"]["X-Tio-Retry-Count"]
               = DecimalStrings[u_retries + 1]

\* C3: a second retry, counted 11, replaced the count 3 of the one before.
C3_Witness ==
    /\ u_calls = 2
    /\ u_retries = 11
    /\ Has(HeadersOf(u_before), "X-Tio-Retry-Count")
    /\ u_before["headers"]["X-Tio-Retry-Count"] = "3"
    /\ u_kwargs["headers"]["X-Tio-Retry-Count"] = "11"

\* C4: when the response that triggers a retry carries X-Request-Uuid, the
\* retried request carries X-Tio-Last-Request-Uuid with that value.
C4_LastRequestUuid ==
    (u_calls > 0 /\ Has(u_response.headers, "X-Request-Uuid")) =>
        /\ Has(HeadersOf(u_kwargs), "X-Tio-Last-Request-Uuid")
        /\ u_kwargs["headers"]["X-Tio-Last-Request-Uuid"]
               = u_response.headers["X-Request-Uuid"]

\* C4: a retry that named u1 is followed by a retry that names u2.
C4_Witness ==
    /\ u_calls = 2
    /\ Has(HeadersOf(u_before), "X-Tio-Last-Request-Uuid")
    /\ u_before["headers"]["X-Tio-Last-Request-Uuid"] = "u1"
    /\ Has(u_response.headers, "X-Request-Uuid")
    /\ u_response.headers["X-Request-Uuid"] = "u2"
    /\ u_kwargs["headers"]["X-Tio-Last-Request-Uuid"] = "u2"

\* C5: the wait before a retry that a 429 triggered is the backoff given to
\* the constructor (1 by default) when the response has no Retry-After, and
\* the Retry-After of the response when it has one.
C5_BackoffFallback ==
    (pc = "waiting" /\ attempts > 1 /\ last_resp.status = 429) =>
        /\ slept.given
        /\ ~Has(last_resp.headers, "Retry-After") =>
                slept.v = ExpectedBackoff
        /\ Has(last_resp.headers, "Retry-After") =>
                last_resp.headers["Retry-After"] = DecimalStrings[slept.v + 1]

\* C5: a 429 without Retry-After was retried after the default wait of 1.
C5_Witness ==
    /\ pc = "waiting"
    /\ attempts > 1
    /\ last_resp.status = 429
    /\ ~Has(last_resp.headers, "Retry-After")
    /\ ~arg_backoff.given
    /\ slept = Some(1)

\* C6: after the first access to _tz, every access returns what the first
\* returned and scans.timezones() was called once, whatever it returned.
C6_TzCached ==
    tz_accesses >= 1 =>
        /\ tz_last = tz_first
        /\ tz_calls = 1

\* C7: _retry_request only adds headers: the result has the keys of kwargs
\* plus 'headers'; every key other than 'headers' keeps its value; every
\* header other than the two X-Tio headers is kept with its value; and no
\* header other than those two is added.
C7_OnlyAddsHeaders ==
    u_calls > 0 =>
        LET old == HeadersOf(u_before)
            new == HeadersOf(u_kwargs) IN
        /\ DOMAIN u_kwargs = DOMAIN u_before \cup {"headers"}
        /\ \A k \in DOMAIN u_before \ {"headers"} : u_kwargs[k] = u_before[k]
        /\ DOMAIN old \subseteq DOMAIN new
        /\ \A h \in DOMAIN old \ XTio : new[h] = old[h]
        /\ DOMAIN new \subseteq DOMAIN old \cup XTio

\* C7: kwargs with params and an Accept header went through a retry.
C7_Witness ==
    /\ u_calls = 1
    /\ u_before = [headers |-> [Accept |-> "json"], params |-> "p"]
    /\ u_kwargs["params"] = "p"
    /\ u_kwargs["headers"]["Accept"] = "json"
    /\ Has(u_kwargs["headers"], "X-Tio-Last-Request-Uuid")

\* C8: over the retries of one call, X-Tio-Last-Request-Uuid of a retry is
\* the X-Request-Uuid of the response just before it, and is absent when
\* that response carried none.
C8_UuidOfLastResponse ==
    u_calls > 0 =>
        IF Has(u_response.headers, "X-Request-Uuid")
        THEN /\ Has(HeadersOf(u_kwargs), "X-Tio-Last-Request-Uuid")
             /\ u_kwargs["headers"]["X-Tio-Last-Request-Uuid"]
                    = u_response.headers["X-Request-Uuid"]
        ELSE ~Has(HeadersOf(u_kwargs), "X-Tio-Last-Request-Uuid")

====
